---------------------------- MODULE Spec2Model ----------------------------
(***************************************************************************)
(* A model of src/ml_models/signal_processing_wasm/src/signal_processing.cpp *)
(* (rPPG signal processing: detrend, band-pass filter, FFT power spectrum,  *)
(* peak search and the four exported entry points).                         *)
(*                                                                          *)
(* Numbers.  A C++ float is modelled as a record [cls, v]: cls "fin" with v *)
(* the value in units of 1/Scale (fixed point, every operation rounded to   *)
(* the nearest unit), or one of the IEEE-754 specials "pinf", "ninf",       *)
(* "nan" with the IEEE rules for them (x/0, 0/0, inf-inf, inf*0, every      *)
(* ordered comparison with NaN false).  Overflow of finite values to        *)
(* infinity is not modelled: the inputs are small.  An int is a TLA+        *)
(* integer; where the 32-bit width matters (the padding loop) the shift     *)
(* wraps modulo 2^32.                                                       *)
(***************************************************************************)
EXTENDS Integers, Sequences, FiniteSets, TLC

(***************************************************************************)
(* Bounds of the model (not program constants).                            *)
(***************************************************************************)
Scale == 1000
MaxLen == 4
MaxPass == 2
MaxBins == 4

(***************************************************************************)
(* The int type: 32-bit two's complement.                                  *)
(***************************************************************************)
INT_MAX == 2147483647
INT_MIN == (-INT_MAX) - 1
TWO30 == 1073741824

Abs(n) == IF n < 0 THEN -n ELSE n
Sgn(n) == IF n < 0 THEN -1 ELSE IF n > 0 THEN 1 ELSE 0
Max(a, b) == IF a < b THEN b ELSE a
Min(a, b) == IF b < a THEN b ELSE a
\* n / d rounded to the nearest integer, d # 0
RoundDiv(n, d) == Sgn(n) * Sgn(d) * ((Abs(n) + (Abs(d) \div 2)) \div Abs(d))

(***************************************************************************)
(* float values and arithmetic                                             *)
(***************************************************************************)
Fin(v) == [cls |-> "fin", v |-> v]
NaN == [cls |-> "nan", v |-> 0]
PInf == [cls |-> "pinf", v |-> 0]
NInf == [cls |-> "ninf", v |-> 0]
IsFin(a) == a.cls = "fin"
IsNaN(a) == a.cls = "nan"
\* sign of a non-NaN value: -1, 0, 1
FSign(a) == IF a.cls = "pinf" THEN 1 ELSE IF a.cls = "ninf" THEN -1 ELSE Sgn(a.v)
InfOf(s) == IF s < 0 THEN NInf ELSE PInf
\* int -> float conversion, and decimal literals n/d (0.8f is Lit(8, 10))
IntToF(i) == Fin(i * Scale)
Lit(n, d) == Fin(RoundDiv(n * Scale, d))

FNeg(a) ==
    IF a.cls = "pinf" THEN NInf
    ELSE IF a.cls = "ninf" THEN PInf
    ELSE IF a.cls = "nan" THEN NaN
    ELSE Fin(-a.v)

FAdd(a, b) ==
    IF IsNaN(a) \/ IsNaN(b) THEN NaN
    ELSE IF IsFin(a) /\ IsFin(b) THEN Fin(a.v + b.v)
    ELSE IF IsFin(a) THEN b
    ELSE IF IsFin(b) THEN a
    ELSE IF a.cls = b.cls THEN a
    ELSE NaN

FSub(a, b) == FAdd(a, FNeg(b))

FMul(a, b) ==
    IF IsNaN(a) \/ IsNaN(b) THEN NaN
    ELSE IF IsFin(a) /\ IsFin(b) THEN Fin(RoundDiv(a.v * b.v, Scale))
    ELSE IF FSign(a) = 0 \/ FSign(b) = 0 THEN NaN
    ELSE InfOf(FSign(a) * FSign(b))

\* IEEE division; a zero divisor is +0 (the model has no negative zero)
FDiv(a, b) ==
    IF IsNaN(a) \/ IsNaN(b) THEN NaN
    ELSE IF ~IsFin(a) /\ ~IsFin(b) THEN NaN
    ELSE IF ~IsFin(a) THEN InfOf(FSign(a) * (IF FSign(b) < 0 THEN -1 ELSE 1))
    ELSE IF ~IsFin(b) THEN Fin(0)
    ELSE IF b.v = 0 THEN (IF a.v = 0 THEN NaN ELSE InfOf(a.v))
    ELSE Fin(RoundDiv(a.v * Scale, b.v))

\* the position of a non-NaN value on the extended line, for comparisons
FLt(a, b) ==
    IF IsNaN(a) \/ IsNaN(b) THEN FALSE
    ELSE IF a.cls = "ninf" THEN b.cls # "ninf"
    ELSE IF a.cls = "pinf" THEN FALSE
    ELSE IF b.cls = "ninf" THEN FALSE
    ELSE IF b.cls = "pinf" THEN TRUE
    ELSE a.v < b.v
FEq(a, b) == ~IsNaN(a) /\ ~IsNaN(b) /\ a = b
FLe(a, b) == FLt(a, b) \/ FEq(a, b)
FGt(a, b) == FLt(b, a)
FGe(a, b) == FLe(b, a)

\* const float PI = 3.14159265359f
PI == Lit(3142, 1000)

(***************************************************************************)
(* std::cos, std::sin on a float angle (radians): range reduction to       *)
(* [0, pi/2] and the Taylor polynomial to the 8th power.                   *)
(***************************************************************************)
CosQ(r) ==
    LET r2 == RoundDiv(r * r, Scale)
        r4 == RoundDiv(r2 * r2, Scale)
        r6 == RoundDiv(r4 * r2, Scale)
        r8 == RoundDiv(r4 * r4, Scale)
    IN  Scale - RoundDiv(r2, 2) + RoundDiv(r4, 24) - RoundDiv(r6, 720)
           + RoundDiv(r8, 40320)

CosFixed(v) ==
    LET twoPi == 2 * PI.v
        r0 == v % twoPi
        r1 == IF r0 > PI.v THEN twoPi - r0 ELSE r0
    IN  IF 2 * r1 > PI.v THEN -CosQ(PI.v - r1) ELSE CosQ(r1)

FCos(a) == IF IsFin(a) THEN Fin(CosFixed(a.v)) ELSE NaN
FSin(a) == IF IsFin(a) THEN Fin(CosFixed(a.v - RoundDiv(PI.v, 2))) ELSE NaN


Zero == Fin(0)
One == IntToF(1)
Two == IntToF(2)

\* the int i as an index of a TLA+ sequence (C arrays start at 0)
At(s, i) == s[i + 1]

(***************************************************************************)
(* detrend_signal(signal, length): the detrended buffer, and the           *)
(* denominator of the slope division as it is executed                     *)
(***************************************************************************)
RECURSIVE SumSignal(_, _)
\* mean += signal[i], i = 0 .. n-1
SumSignal(signal, n) ==
    IF n <= 0 THEN Zero ELSE FAdd(SumSignal(signal, n - 1), At(signal, n - 1))

RECURSIVE SumIdx(_)
\* sum_x += i, i = 0 .. n-1
SumIdx(n) == IF n <= 0 THEN Zero ELSE FAdd(SumIdx(n - 1), IntToF(n - 1))

RECURSIVE SumIdxSignal(_, _)
\* sum_xy += i * signal[i], i = 0 .. n-1
SumIdxSignal(signal, n) ==
    IF n <= 0 THEN Zero
    ELSE FAdd(SumIdxSignal(signal, n - 1),
              FMul(IntToF(n - 1), At(signal, n - 1)))

RECURSIVE SumIdxSq(_)
\* sum_x2 += i * i, i = 0 .. n-1
SumIdxSq(n) ==
    IF n <= 0 THEN Zero ELSE FAdd(SumIdxSq(n - 1), IntToF((n - 1) * (n - 1)))

\* length * sum_x2 - sum_x * sum_x
DetrendDenominator(length) ==
    FSub(FMul(IntToF(length), SumIdxSq(length)),
         FMul(SumIdx(length), SumIdx(length)))

detrend_signal(signal, length) ==
    LET mean == FDiv(SumSignal(signal, length), IntToF(length))
        centred == [i \in 1..Len(signal) |->
                      IF i <= length THEN FSub(signal[i], mean) ELSE signal[i]]
        sum_x == SumIdx(length)
        sum_y == SumSignal(centred, length)
        sum_xy == SumIdxSignal(centred, length)
        den == DetrendDenominator(length)
        slope == FDiv(FSub(FMul(IntToF(length), sum_xy), FMul(sum_x, sum_y)),
                      den)
        intercept == FDiv(FSub(sum_y, FMul(slope, sum_x)), IntToF(length))
    IN  [signal |-> [i \in 1..Len(signal) |->
                       IF i <= length
                       THEN FSub(centred[i],
                                 FAdd(FMul(slope, IntToF(i - 1)), intercept))
                       ELSE centred[i]],
         den |-> den]

(***************************************************************************)
(* bandpass_filter                                                         *)
(***************************************************************************)
\* if (!input || !output || length <= 0) return 0;
BandpassGuard(in_null, out_null, length) == in_null \/ out_null \/ length <= 0

\* the band check with high_norm > 1 in place of high_norm >= 1
BandRejected_strict(sample_rate, low_cutoff, high_cutoff) ==
    LET nyquist == FDiv(sample_rate, Two)
        low_norm == FDiv(low_cutoff, nyquist)
        high_norm == FDiv(high_cutoff, nyquist)
    IN  FLe(low_norm, Zero) \/ FGt(high_norm, One) \/ FGe(low_norm, high_norm)

\* if (low_norm <= 0 || high_norm >= 1 || low_norm >= high_norm) return 0;
BandRejected(sample_rate, low_cutoff, high_cutoff) ==
    LET nyquist == FDiv(sample_rate, Two)
        low_norm == FDiv(low_cutoff, nyquist)
        high_norm == FDiv(high_cutoff, nyquist)
    IN  FLe(low_norm, Zero) \/ FGe(high_norm, One) \/ FGe(low_norm, high_norm)

RECURSIVE HighPass(_, _, _)
\* temp[0] = input[0]; temp[i] = alpha_high * (temp[i-1] + input[i] - input[i-1])
HighPass(input, alpha_high, n) ==
    IF n <= 0 THEN <<>>
    ELSE IF n = 1 THEN <<At(input, 0)>>
    ELSE LET t == HighPass(input, alpha_high, n - 1)
         IN  Append(t, FMul(alpha_high,
                            FSub(FAdd(At(t, n - 2), At(input, n - 1)),
                                 At(input, n - 2))))

RECURSIVE LowPass(_, _, _)
\* output[0] = temp[0]; output[i] = output[i-1] + alpha_low * (temp[i] - output[i-1])
LowPass(temp, alpha_low, n) ==
    IF n <= 0 THEN <<>>
    ELSE IF n = 1 THEN <<At(temp, 0)>>
    ELSE LET o == LowPass(temp, alpha_low, n - 1)
         IN  Append(o, FAdd(At(o, n - 2),
                            FMul(alpha_low, FSub(At(temp, n - 1), At(o, n - 2)))))

\* the result: ret (0 or 1) and the output buffer after the call
bandpass_filter(in_null, out_null, input, output, length, sample_rate, low_cutoff, high_cutoff) ==
    IF BandpassGuard(in_null, out_null, length)
    THEN [ret |-> 0, output |-> output]
    ELSE IF BandRejected(sample_rate, low_cutoff, high_cutoff)
    THEN [ret |-> 0, output |-> output]
    ELSE
      LET rc_low == FDiv(One, FMul(FMul(Two, PI), low_cutoff))
          rc_high == FDiv(One, FMul(FMul(Two, PI), high_cutoff))
          dt == FDiv(One, sample_rate)
          alpha_low == FDiv(dt, FAdd(rc_low, dt))
          alpha_high == FDiv(rc_high, FAdd(rc_high, dt))
          temp == HighPass(input, alpha_high, length)
          low == LowPass(temp, alpha_low, length)
      IN  [ret |-> 1,
           output |-> [i \in 1..Len(output) |->
                         IF i <= length THEN low[i] ELSE output[i]]]

(***************************************************************************)
(* fft: recursive Cooley-Tukey on a sequence of complex values [re, im]    *)
(***************************************************************************)
Cx(re, im) == [re |-> re, im |-> im]
CAdd(a, b) == Cx(FAdd(a.re, b.re), FAdd(a.im, b.im))
CSub(a, b) == Cx(FSub(a.re, b.re), FSub(a.im, b.im))
CMul(a, b) == Cx(FSub(FMul(a.re, b.re), FMul(a.im, b.im)),
                 FAdd(FMul(a.re, b.im), FMul(a.im, b.re)))
\* std::polar(1.0f, theta)
Polar1(theta) == Cx(FMul(One, FCos(theta)), FMul(One, FSin(theta)))
\* std::norm
Norm(a) == FAdd(FMul(a.re, a.re), FMul(a.im, a.im))

\* the elements of data at the even (parity 0) or odd (parity 1) C indices
Pick(data, parity) ==
    LET n == Len(data)
        cnt == IF parity = 0 THEN (n + 1) \div 2 ELSE n \div 2
    IN  [j \in 1..cnt |-> At(data, 2 * (j - 1) + parity)]

\* -2 * PI * k / N
Twiddle(k, N) ==
    Polar1(FDiv(FMul(FMul(IntToF(-2), PI), IntToF(k)), IntToF(N)))

RECURSIVE fft(_)
fft(data) ==
    LET N == Len(data) IN
    IF N <= 1 THEN data
    ELSE
      LET even == fft(Pick(data, 0))
          odd == fft(Pick(data, 1))
          half == N \div 2
          t(k) == CMul(Twiddle(k, N), At(odd, k))
      IN  [j \in 1..N |->
             IF j <= half THEN CAdd(At(even, j - 1), t(j - 1))
             ELSE IF j <= 2 * half
                  THEN CSub(At(even, j - 1 - half), t(j - 1 - half))
                  ELSE data[j]]

(***************************************************************************)
(* calculate_psd                                                           *)
(***************************************************************************)
\* fft_size <<= 1 on a 32-bit int: the shift wraps modulo 2^32 (the value
\* C++20 defines, and the one a two's complement shift instruction gives)
Shl1(x) ==
    LET y == IF x < 0 THEN x - INT_MIN ELSE x
    IN  IF y < TWO30 THEN 2 * y ELSE (2 * (y - TWO30)) + INT_MIN

RECURSIVE PadLoop(_, _)
\* while (fft_size < length) fft_size <<= 1;
PadLoop(fft_size, length) ==
    IF fft_size < length THEN PadLoop(Shl1(fft_size), length) ELSE fft_size

\* 0.5f * (1.0f - std::cos(2.0f * PI * i / (length - 1)))
Hann(i, length) ==
    FMul(Lit(5, 10),
         FSub(One, FCos(FDiv(FMul(FMul(Two, PI), IntToF(i)),
                             IntToF(length - 1)))))

\* fft_data[i] *= window  (complex times float)
CScale(a, w) == Cx(FMul(a.re, w), FMul(a.im, w))

calculate_psd(signal, length) ==
    LET fft_size == PadLoop(1, length)
        fft_data == [i \in 1..fft_size |->
                       IF i <= length
                       THEN CScale(Cx(signal[i], Zero), Hann(i - 1, length))
                       ELSE Cx(Zero, Zero)]
        spectrum == fft(fft_data)
    IN  [i \in 1..(fft_size \div 2) |-> Norm(spectrum[i])]

(***************************************************************************)
(* find_peak_frequency                                                     *)
(***************************************************************************)
\* static_cast<int>(f): truncation; of a NaN or an infinity the behaviour is
\* undefined, and the builds produce one of INT_MIN, 0, INT_MAX
CastInt(f) ==
    IF IsFin(f) THEN {Sgn(f.v) * (Abs(f.v) \div Scale)}
    ELSE {INT_MIN, 0, INT_MAX}

\* sample_rate / fft_size, fft_size = psd.size() * 2
FreqResolution(psd, sample_rate) == FDiv(sample_rate, IntToF(Len(psd) * 2))

\* the comparison of the scan as >= in place of >
Exceeds_orEqual(p, max_power) == FGe(p, max_power)

\* psd[i] > max_power
Exceeds(p, max_power) == FGt(p, max_power)

RECURSIVE ScanPeak(_, _, _, _, _)
\* for (i = ...; i <= max_bin; i++) if (psd[i] > max_power) {...}
ScanPeak(psd, i, max_bin, peak_bin, max_power) ==
    IF i > max_bin THEN peak_bin
    ELSE IF Exceeds(At(psd, i), max_power)
         THEN ScanPeak(psd, i + 1, max_bin, i, At(psd, i))
         ELSE ScanPeak(psd, i + 1, max_bin, peak_bin, max_power)

\* peak_bin * freq_resolution (the int converted to float, then multiplied)
IntTimesF(i, f) ==
    IF IsNaN(f) THEN NaN
    ELSE IF ~IsFin(f) THEN (IF i = 0 THEN NaN ELSE InfOf(Sgn(i) * FSign(f)))
    ELSE Fin(i * f.v)

\* min_cast, max_cast: the values of the two static_cast<int>.  The result:
\* the bins, the indices at which psd was read, and the returned frequency.
find_peak_frequency(psd, sample_rate, min_cast, max_cast) ==
    LET freq_resolution == FreqResolution(psd, sample_rate)
        min_bin == Max(1, min_cast)
        max_bin == Min(Len(psd) - 1, max_cast)
        \* psd[min_bin]: past the end of psd the read is undefined; the value
        \* read there is never compared (the scan is empty then)
        first == IF min_bin < Len(psd) THEN At(psd, min_bin) ELSE NaN
        peak_bin == IF min_bin < max_bin
                    THEN ScanPeak(psd, min_bin + 1, max_bin, min_bin, first)
                    ELSE min_bin
    IN  [min_bin |-> min_bin, max_bin |-> max_bin, peak_bin |-> peak_bin,
         reads |-> {min_bin} \cup
                   (IF min_bin < max_bin THEN (min_bin + 1)..max_bin ELSE {}),
         size |-> Len(psd),
         ret |-> IntTimesF(peak_bin, freq_resolution)]


(***************************************************************************)
(* process_rppg_signals: the normalisation step                            *)
(***************************************************************************)
RECURSIVE MaxElement(_, _)
\* *std::max_element(output, output + n): the first largest by operator<
MaxElement(output, n) ==
    IF n <= 1 THEN At(output, 0)
    ELSE LET m == MaxElement(output, n - 1)
         IN  IF FLt(m, At(output, n - 1)) THEN At(output, n - 1) ELSE m

RECURSIVE MinElement(_, _)
\* *std::min_element(output, output + n): the first smallest by operator<
MinElement(output, n) ==
    IF n <= 1 THEN At(output, 0)
    ELSE LET m == MinElement(output, n - 1)
         IN  IF FLt(At(output, n - 1), m) THEN At(output, n - 1) ELSE m

\* if (range > 0)
RangePositive(range) == FGt(range, Zero)

Normalize(output, length) ==
    LET max_val == MaxElement(output, length)
        min_val == MinElement(output, length)
        range == FSub(max_val, min_val)
    IN  IF RangePositive(range)
        THEN [i \in 1..Len(output) |->
                IF i <= length THEN FDiv(FSub(output[i], min_val), range)
                ELSE output[i]]
        ELSE output

\* the guard of process_rppg_signals without its test of length
ProcessGuard_noLength(inNull, outNull, len) == inNull \/ outNull

\* the entry guards
ProcessGuard(inNull, outNull, len) == inNull \/ outNull \/ len <= 0
RateGuard(sigNull, len) == sigNull \/ len <= 0

(***************************************************************************)
(* The state                                                               *)
(***************************************************************************)
VARIABLES
    pc,            \* the position of the running call
    fn,            \* the entry point called
    in_null,       \* the input (signals) pointer is null
    out_null,      \* the output pointer is null
    length,
    input,         \* the caller's input buffer
    out0,          \* the caller's output buffer as it was at the call
    sample_rate,
    low_cutoff,
    high_cutoff,
    min_rate,      \* min_bpm / min_brpm
    max_rate,      \* max_bpm / max_brpm
    pass,          \* how many times process ran on its own output
    output,        \* the caller's output buffer
    temp,          \* process_rppg_signals: std::vector<float> temp
    filtered,      \* calculate_respiration_rate: std::vector<float> filtered
    detrended,     \* the output buffer as detrend_signal left it
    detrend_den,   \* the divisor of the slope division in detrend_signal
    bp,            \* the last call of bandpass_filter from a pipeline
    psd,           \* the power spectrum
    psd_in,        \* the signal calculate_psd was called on
    min_hz,
    max_hz,
    peak,          \* what find_peak_frequency did
    ret_int,       \* the int returned (-1: none yet)
    ret_f,         \* the float returned
    trace,         \* the stages run so far in this call
    fft_size,      \* calculate_psd: int fft_size
    fft_n,         \* fft: the size at the current level of the recursion
    depth          \* fft: the depth of the recursion

callVars == <<fn, in_null, out_null, length, input, out0, sample_rate,
              low_cutoff, high_cutoff, min_rate, max_rate, pass>>
padVars == <<fft_size, fft_n, depth>>
vars == <<pc, callVars, output, temp, filtered, detrended, detrend_den, bp,
          psd, psd_in, min_hz, max_hz, peak, ret_int, ret_f, trace, padVars>>

NoBp == [called |-> FALSE, input |-> <<>>, low |-> Zero, high |-> Zero,
         ret |-> 0, output |-> <<>>]
NoPeak == [called |-> FALSE, min_bin |-> 0, max_bin |-> 0, peak_bin |-> 0,
           reads |-> {}, size |-> 0, ret |-> Zero]

(***************************************************************************)
(* The inputs                                                              *)
(***************************************************************************)
Lengths == (-1)..MaxLen
SampleVals == {IntToF(v) : v \in {-1, 0, 2}}
BufLen(len) == IF len > 0 THEN len ELSE 1
Buffers(isNull, len) ==
    IF isNull THEN {<<>>} ELSE [1..BufLen(len) -> SampleVals]
\* the caller's output buffer holds some earlier content
Stale(isNull, len) ==
    IF isNull THEN <<>> ELSE [i \in 1..BufLen(len) |-> IntToF(9)]
SampleRates == {IntToF(r) : r \in {-8, 0, 6, 8, 30}}
Cutoffs == {IntToF(c) : c \in {-2, -1, 0, 1, 3}}
Rates == {IntToF(r) : r \in {0, 60, 480}}

Init ==
    /\ pc = "idle"
    /\ fn = "none"
    /\ in_null = FALSE /\ out_null = FALSE
    /\ length = 0
    /\ input = <<>> /\ out0 = <<>> /\ output = <<>>
    /\ sample_rate = Zero /\ low_cutoff = Zero /\ high_cutoff = Zero
    /\ min_rate = Zero /\ max_rate = Zero
    /\ pass = 0
    /\ temp = <<>> /\ filtered = <<>> /\ detrended = <<>>
    /\ detrend_den = Zero
    /\ bp = NoBp
    /\ psd = <<>> /\ psd_in = <<>>
    /\ min_hz = Zero /\ max_hz = Zero
    /\ peak = NoPeak
    /\ ret_int = -1 /\ ret_f = Zero
    /\ trace = <<>>
    /\ fft_size = 0 /\ fft_n = 0 /\ depth = 0

workVars == <<temp, filtered, detrended, detrend_den, bp, psd, psd_in,
              min_hz, max_hz, peak, ret_int, ret_f, trace, padVars>>

(***************************************************************************)
(* The host calls one of the four exported functions                       *)
(***************************************************************************)
CallProcess ==
    /\ pc = "idle"
    /\ \E len \in Lengths, inN \in BOOLEAN, outN \in BOOLEAN, sr \in SampleRates :
         \E buf \in Buffers(inN, len) :
            /\ fn' = "process"
            /\ length' = len /\ in_null' = inN /\ out_null' = outN
            /\ input' = buf
            /\ out0' = Stale(outN, len) /\ output' = Stale(outN, len)
            /\ sample_rate' = sr
    /\ pc' = "p_entry"
    /\ UNCHANGED <<low_cutoff, high_cutoff, min_rate, max_rate, pass, workVars>>

CallBandpass ==
    /\ pc = "idle"
    /\ \E len \in Lengths, inN \in BOOLEAN, outN \in BOOLEAN, sr \in SampleRates,
          lo \in Cutoffs, hi \in Cutoffs :
         \E buf \in Buffers(inN, len) :
            /\ fn' = "bandpass"
            /\ length' = len /\ in_null' = inN /\ out_null' = outN
            /\ input' = buf
            /\ out0' = Stale(outN, len) /\ output' = Stale(outN, len)
            /\ sample_rate' = sr /\ low_cutoff' = lo /\ high_cutoff' = hi
    /\ pc' = "b_entry"
    /\ UNCHANGED <<min_rate, max_rate, pass, workVars>>

CallRate(name, entry) ==
    /\ pc = "idle"
    /\ \E len \in Lengths, inN \in BOOLEAN, sr \in SampleRates,
          lo \in Rates, hi \in Rates :
         \E buf \in Buffers(inN, len) :
            /\ fn' = name
            /\ length' = len /\ in_null' = inN
            /\ input' = buf
            /\ sample_rate' = sr /\ min_rate' = lo /\ max_rate' = hi
    /\ pc' = entry
    /\ UNCHANGED <<out_null, out0, output, low_cutoff, high_cutoff, pass,
                   workVars>>

CallHeartRate == CallRate("heart", "h_entry")
CallRespiration == CallRate("resp", "r_entry")

\* the host runs process again on the output of a successful pass
ProcessAgain ==
    /\ pc = "ret" /\ fn = "process" /\ ret_int = 1
    /\ pass < MaxPass
    /\ pass' = pass + 1
    /\ input' = output
    /\ out0' = output
    /\ pc' = "p_entry"
    /\ temp' = <<>> /\ detrended' = <<>> /\ detrend_den' = Zero
    /\ bp' = NoBp /\ ret_int' = -1 /\ trace' = <<>>
    /\ UNCHANGED <<fn, in_null, out_null, length, sample_rate, low_cutoff,
                   high_cutoff, min_rate, max_rate, output, filtered, psd,
                   psd_in, min_hz, max_hz, peak, ret_f, padVars>>

(***************************************************************************)
(* process_rppg_signals                                                    *)
(***************************************************************************)
\* the guard, then the copy of input to output
ProcessEntry ==
    /\ pc = "p_entry"
    /\ IF ProcessGuard(in_null, out_null, length)
       THEN /\ ret_int' = 0
            /\ pc' = "ret"
            /\ UNCHANGED <<output, trace>>
       ELSE /\ output' = [i \in 1..Len(output) |->
                            IF i <= length THEN input[i] ELSE output[i]]
            /\ trace' = Append(trace, "copy")
            /\ pc' = "p_detrend"
            /\ UNCHANGED ret_int
    /\ UNCHANGED <<callVars, temp, filtered, detrended, detrend_den, bp, psd,
                   psd_in, min_hz, max_hz, peak, ret_f, padVars>>

\* Step 1: detrend_signal(output, length)
ProcessDetrend ==
    /\ pc = "p_detrend"
    /\ LET d == detrend_signal(output, length)
       IN  /\ output' = d.signal
           /\ detrended' = d.signal
           /\ detrend_den' = d.den
    /\ trace' = Append(trace, "detrend")
    /\ pc' = "p_filter"
    /\ UNCHANGED <<callVars, temp, filtered, bp, psd, psd_in, min_hz, max_hz,
                   peak, ret_int, ret_f, padVars>>

\* Step 2: the copy to temp and bandpass_filter(temp, output, ..., 0.8f, 3.0f)
ProcessFilter ==
    /\ pc = "p_filter"
    /\ LET copy == [i \in 1..length |-> output[i]]
           r == bandpass_filter(FALSE, FALSE, copy, output, length,
                                sample_rate, Lit(8, 10), Lit(30, 10))
       IN  /\ temp' = copy
           /\ bp' = [called |-> TRUE, input |-> copy, low |-> Lit(8, 10),
                     high |-> Lit(30, 10), ret |-> r.ret,
                     output |-> r.output]
           /\ output' = r.output
           /\ IF r.ret = 0
              THEN /\ ret_int' = 0
                   /\ pc' = "ret"
                   /\ trace' = Append(trace, "bandpass")
              ELSE /\ pc' = "p_norm"
                   /\ trace' = trace \o <<"bandpass", "filter">>
                   /\ UNCHANGED ret_int
    /\ UNCHANGED <<callVars, filtered, detrended, detrend_den, psd, psd_in,
                   min_hz, max_hz, peak, ret_f, padVars>>

\* Step 3: normalise, return 1
ProcessNormalize ==
    /\ pc = "p_norm"
    /\ output' = Normalize(output, length)
    /\ trace' = Append(trace, "normalize")
    /\ ret_int' = 1
    /\ pc' = "ret"
    /\ UNCHANGED <<callVars, temp, filtered, detrended, detrend_den, bp, psd,
                   psd_in, min_hz, max_hz, peak, ret_f, padVars>>

(***************************************************************************)
(* bandpass_filter called by the host                                      *)
(***************************************************************************)
Bandpass ==
    /\ pc = "b_entry"
    /\ LET r == bandpass_filter(in_null, out_null, input, output, length,
                                sample_rate, low_cutoff, high_cutoff)
       IN  /\ output' = r.output
           /\ ret_int' = r.ret
           /\ trace' = IF r.ret = 1 THEN Append(trace, "filter") ELSE trace
    /\ pc' = "ret"
    /\ UNCHANGED <<callVars, temp, filtered, detrended, detrend_den, bp, psd,
                   psd_in, min_hz, max_hz, peak, ret_f, padVars>>

(***************************************************************************)
(* calculate_heart_rate_fft                                                *)
(***************************************************************************)
\* the guard, then the conversion of the bounds to Hz
HeartEntry ==
    /\ pc = "h_entry"
    /\ IF RateGuard(in_null, length)
       THEN /\ ret_f' = Zero
            /\ pc' = "ret"
            /\ UNCHANGED <<min_hz, max_hz>>
       ELSE /\ min_hz' = FDiv(min_rate, IntToF(60))
            /\ max_hz' = FDiv(max_rate, IntToF(60))
            /\ pc' = "h_psd"
            /\ UNCHANGED ret_f
    /\ UNCHANGED <<callVars, output, temp, filtered, detrended, detrend_den,
                   bp, psd, psd_in, peak, ret_int, trace, padVars>>

\* psd = calculate_psd(signals, length)
HeartPsd ==
    /\ pc = "h_psd"
    /\ psd' = calculate_psd(input, length)
    /\ psd_in' = input
    /\ trace' = Append(trace, "psd")
    /\ pc' = "h_peak"
    /\ UNCHANGED <<callVars, output, temp, filtered, detrended, detrend_den,
                   bp, min_hz, max_hz, peak, ret_int, ret_f, padVars>>

\* find_peak_frequency(psd, sample_rate, min_hz, max_hz), return peak_freq * 60
PeakStep(next_pc, per_minute) ==
    /\ \E min_cast \in CastInt(FDiv(min_hz, FreqResolution(psd, sample_rate))),
          max_cast \in CastInt(FDiv(max_hz, FreqResolution(psd, sample_rate))) :
         LET r == find_peak_frequency(psd, sample_rate, min_cast, max_cast)
         IN  /\ peak' = [called |-> TRUE, min_bin |-> r.min_bin,
                         max_bin |-> r.max_bin, peak_bin |-> r.peak_bin,
                         reads |-> r.reads, size |-> r.size, ret |-> r.ret]
             /\ ret_f' = IF per_minute THEN FMul(r.ret, IntToF(60)) ELSE r.ret
    /\ trace' = Append(trace, "peak")
    /\ pc' = next_pc
    /\ UNCHANGED <<callVars, output, temp, filtered, detrended, detrend_den,
                   bp, psd, psd_in, min_hz, max_hz, ret_int, padVars>>

HeartPeak == pc = "h_peak" /\ PeakStep("ret", TRUE)

(***************************************************************************)
(* calculate_respiration_rate                                              *)
(***************************************************************************)
RespEntry ==
    /\ pc = "r_entry"
    /\ IF RateGuard(in_null, length)
       THEN /\ ret_f' = Zero
            /\ pc' = "ret"
       ELSE /\ pc' = "r_filter"
            /\ UNCHANGED ret_f
    /\ UNCHANGED <<callVars, output, temp, filtered, detrended, detrend_den,
                   bp, psd, psd_in, min_hz, max_hz, peak, ret_int, trace,
                   padVars>>

\* filtered(length); bandpass_filter(signals, filtered.data(), ..., 0.1f, 0.7f);
\* on success the conversion of the bounds to Hz
RespFilter ==
    /\ pc = "r_filter"
    /\ LET fresh == [i \in 1..length |-> Zero]
           r == bandpass_filter(in_null, FALSE, input, fresh, length,
                                sample_rate, Lit(1, 10), Lit(7, 10))
       IN  /\ filtered' = r.output
           /\ bp' = [called |-> TRUE, input |-> input, low |-> Lit(1, 10),
                     high |-> Lit(7, 10), ret |-> r.ret,
                     output |-> r.output]
           /\ IF r.ret = 0
              THEN /\ ret_f' = Zero
                   /\ pc' = "ret"
                   /\ trace' = Append(trace, "bandpass")
                   /\ UNCHANGED <<min_hz, max_hz>>
              ELSE /\ min_hz' = FDiv(min_rate, IntToF(60))
                   /\ max_hz' = FDiv(max_rate, IntToF(60))
                   /\ pc' = "r_psd"
                   /\ trace' = trace \o <<"bandpass", "filter">>
                   /\ UNCHANGED ret_f
    /\ UNCHANGED <<callVars, output, temp, detrended, detrend_den, psd,
                   psd_in, peak, ret_int, padVars>>

\* the spectrum taken of the caller's signal in place of the filtered copy
RespPsd_raw ==
    /\ pc = "r_psd"
    /\ psd' = calculate_psd(input, length)
    /\ psd_in' = input
    /\ trace' = Append(trace, "psd")
    /\ pc' = "r_peak"
    /\ UNCHANGED <<callVars, output, temp, filtered, detrended, detrend_den,
                   bp, min_hz, max_hz, peak, ret_int, ret_f, padVars>>

\* psd = calculate_psd(filtered.data(), length)
RespPsd ==
    /\ pc = "r_psd"
    /\ psd' = calculate_psd(filtered, length)
    /\ psd_in' = filtered
    /\ trace' = Append(trace, "psd")
    /\ pc' = "r_peak"
    /\ UNCHANGED <<callVars, output, temp, filtered, detrended, detrend_den,
                   bp, min_hz, max_hz, peak, ret_int, ret_f, padVars>>

RespPeak == pc = "r_peak" /\ PeakStep("ret", TRUE)

Next ==
    \/ CallProcess \/ CallBandpass \/ CallHeartRate \/ CallRespiration
    \/ ProcessAgain
    \/ ProcessEntry \/ ProcessDetrend \/ ProcessFilter \/ ProcessNormalize
    \/ Bandpass
    \/ HeartEntry \/ HeartPsd \/ HeartPeak
    \/ RespEntry \/ RespFilter \/ RespPsd \/ RespPeak

Spec == Init /\ [][Next]_vars

(***************************************************************************)
(* find_peak_frequency on its own: any power spectrum, any bounds          *)
(***************************************************************************)
PowerVals == {IntToF(v) : v \in {0, 1, 3}}
Spectra == UNION {[1..n -> PowerVals] : n \in 0..MaxBins}
PeakRates == {IntToF(r) : r \in {-8, 0, 1, 8}}
Freqs == {IntToF(f) : f \in {0, 1, 2, 3, 5}}

PeakInit ==
    /\ pc = "k_call"
    /\ fn = "peak"
    /\ psd \in Spectra
    /\ sample_rate \in PeakRates
    /\ min_hz \in Freqs /\ max_hz \in Freqs
    /\ in_null = FALSE /\ out_null = FALSE
    /\ length = 0
    /\ input = <<>> /\ out0 = <<>> /\ output = <<>>
    /\ low_cutoff = Zero /\ high_cutoff = Zero
    /\ min_rate = Zero /\ max_rate = Zero
    /\ pass = 0
    /\ temp = <<>> /\ filtered = <<>> /\ detrended = <<>>
    /\ detrend_den = Zero
    /\ bp = NoBp
    /\ psd_in = <<>>
    /\ peak = NoPeak
    /\ ret_int = -1 /\ ret_f = Zero
    /\ trace = <<>>
    /\ fft_size = 0 /\ fft_n = 0 /\ depth = 0

FindPeak == pc = "k_call" /\ PeakStep("k_done", FALSE)

PeakNext == FindPeak

PeakSpec == PeakInit /\ [][PeakNext]_vars

(***************************************************************************)
(* calculate_psd's padding loop and the recursion of fft, step by step,    *)
(* for any length the guards let through (1 .. INT_MAX)                    *)
(***************************************************************************)
PadLengths == (1..(2 * MaxLen)) \cup {TWO30 - 1, TWO30, TWO30 + 1, INT_MAX}

\* int fft_size = 1;
PadInit ==
    /\ pc = "pad_test"
    /\ fn = "psd"
    /\ length \in PadLengths
    /\ fft_size = 1 /\ fft_n = 0 /\ depth = 0
    /\ psd = <<>>
    /\ sample_rate = Zero
    /\ min_hz = Zero /\ max_hz = Zero
    /\ in_null = FALSE /\ out_null = FALSE
    /\ input = <<>> /\ out0 = <<>> /\ output = <<>>
    /\ low_cutoff = Zero /\ high_cutoff = Zero
    /\ min_rate = Zero /\ max_rate = Zero
    /\ pass = 0
    /\ temp = <<>> /\ filtered = <<>> /\ detrended = <<>>
    /\ detrend_den = Zero
    /\ bp = NoBp
    /\ psd_in = <<>>
    /\ peak = NoPeak
    /\ ret_int = -1 /\ ret_f = Zero
    /\ trace = <<>>

nonPad == <<callVars, output, temp, filtered, detrended, detrend_den, bp,
            psd, psd_in, min_hz, max_hz, peak, ret_int, ret_f, trace>>

\* while (fft_size < length): the test
PadTest ==
    /\ pc = "pad_test"
    /\ IF fft_size < length
       THEN pc' = "pad_shift" /\ UNCHANGED fft_n
       ELSE pc' = "fft" /\ fft_n' = fft_size
    /\ UNCHANGED <<fft_size, depth, nonPad>>

\* fft_size <<= 1
PadShift ==
    /\ pc = "pad_shift"
    /\ fft_size' = Shl1(fft_size)
    /\ pc' = "pad_test"
    /\ UNCHANGED <<fft_n, depth, nonPad>>

\* fft on N > 1 elements calls fft on its even half (the longer one)
FftSplit ==
    /\ pc = "fft"
    /\ fft_n > 1
    /\ fft_n' = (fft_n + 1) \div 2
    /\ depth' = depth + 1
    /\ UNCHANGED <<pc, fft_size, nonPad>>

\* if (N <= 1) return;
FftBase ==
    /\ pc = "fft"
    /\ fft_n <= 1
    /\ pc' = "done"
    /\ UNCHANGED <<fft_size, fft_n, depth, nonPad>>

PadNext == PadTest \/ PadShift \/ FftSplit \/ FftBase

PadSpec == PadInit /\ [][PadNext]_vars

\* the loop and the recursion are sequential code: a step that can run, runs
FairPadSpec == PadSpec /\ WF_vars(PadNext)

(***************************************************************************)
(* The claims                                                              *)
(***************************************************************************)
Stages == {trace[i] : i \in 1..Len(trace)}
Returned == pc = "ret"
ValidBuffers == ~in_null /\ ~out_null /\ length > 0

\* C1: bandpass_filter called with non-null buffers and length > 0 returns 0
\* and leaves the output buffer as it was whenever lowHz <= 0, or
\* highHz >= sampleRate/2, or lowHz >= highHz, for any sample rate.
C1_RejectsInvalidBand ==
    (/\ fn = "bandpass" /\ Returned /\ ValidBuffers
     /\ \/ low_cutoff.v <= 0
        \/ 2 * high_cutoff.v >= sample_rate.v
        \/ low_cutoff.v >= high_cutoff.v)
    => (ret_int = 0 /\ output = out0)

\* C2: find_peak_frequency returns peakBin * resolution with peakBin never 0
\* and minBin <= peakBin <= maxBin, also when the clamped range is empty.
C2_PeakWithinClampedRange ==
    (fn = "peak" /\ peak.called)
    => /\ peak.peak_bin # 0
       /\ peak.min_bin <= peak.peak_bin
       /\ peak.peak_bin <= peak.max_bin
       /\ peak.ret = IntTimesF(peak.peak_bin, FreqResolution(psd, sample_rate))

\* C3: calculate_heart_rate_fft runs guard, spectrum of the caller's signal,
\* peak search and never bandpass_filter, whatever the sample rate;
\* calculate_respiration_rate calls bandpass_filter with the band
\* [0.1, 0.7] Hz first, takes the spectrum of the filtered copy, and returns
\* 0.0 without a spectrum or a peak search when the filter fails.
C3_StageOrder ==
    /\ fn = "heart" =>
         /\ ~bp.called /\ "bandpass" \notin Stages /\ "filter" \notin Stages
         /\ "psd" \in Stages => psd_in = input
         /\ (Returned /\ ~RateGuard(in_null, length)) =>
               (trace = <<"psd", "peak">> /\ peak.called
                /\ ret_f = FMul(peak.ret, IntToF(60)))
    /\ fn = "resp" =>
         /\ trace # <<>> =>
               /\ trace[1] = "bandpass"
               /\ bp.called /\ bp.input = input
               /\ bp.low = Lit(1, 10) /\ bp.high = Lit(7, 10)
         /\ "psd" \in Stages => (bp.ret = 1 /\ psd_in = bp.output)
         /\ pc = "r_peak" => psd = calculate_psd(bp.output, length)
         /\ (bp.called /\ bp.ret = 0) =>
               /\ Returned /\ ret_f = Zero
               /\ trace = <<"bandpass">>
               /\ ~peak.called /\ psd = <<>>
         /\ (Returned /\ bp.called /\ bp.ret = 1) =>
               trace = <<"bandpass", "filter", "psd", "peak">>

\* a respiration call that went through all its stages on a signal the
\* filter changed
C3_Witness ==
    /\ fn = "resp" /\ Returned
    /\ trace = <<"bandpass", "filter", "psd", "peak">>
    /\ psd_in # input

\* C4: each entry point called with a null buffer or length <= 0 returns its
\* failure value (0, or 0.0 for the rate estimators) at once: no stage has
\* run and no buffer element has changed.
InvalidCall ==
    \/ in_null
    \/ length <= 0
    \/ (fn \in {"process", "bandpass"} /\ out_null)

C4_GuardFirst ==
    (/\ fn \in {"process", "bandpass", "heart", "resp"}
     /\ InvalidCall
     /\ pc \notin {"p_entry", "b_entry", "h_entry", "r_entry"})
    => /\ Returned
       /\ trace = <<>>
       /\ output = out0
       /\ ~bp.called /\ ~peak.called /\ psd = <<>>
       /\ fn \in {"process", "bandpass"} => ret_int = 0
       /\ fn \in {"heart", "resp"} => ret_f = Zero

\* process called with good pointers and length 0 has returned
C4_Witness ==
    /\ fn = "process" /\ Returned
    /\ ~in_null /\ ~out_null /\ length = 0
    /\ ret_int = 0

\* C5: on every path that reaches detrend_signal, length 1 included, the
\* divisor N*sum(x^2) - (sum x)^2 of the slope division is not zero.
C5_NoDivisionByZero ==
    "detrend" \in Stages => detrend_den # Zero

\* C6: for every length of the int type the padding loop ends with fft_size
\* the smallest power of two >= length, and the recursion of fft on that
\* size ends at depth log2(fft_size).
C6_PadAndFftTerminate ==
    <>(/\ pc = "done"
       /\ fft_size >= length
       /\ (fft_size = 1 \/ fft_size \div 2 < length)
       /\ 2 ^ depth = fft_size)

\* C7: when process returns success: if the filtered output has max > min,
\* every output sample is in [0,1], the minimum became 0, the maximum 1 and
\* the order of the samples is kept; if max = min the output is the filtered
\* output; and a second pass over a first pass's output is within [0,1].
InUnit(a) == FLe(Zero, a) /\ FLe(a, One)
C7_Normalized ==
    (fn = "process" /\ Returned /\ ret_int = 1)
    => LET f == bp.output
           hi == MaxElement(f, length)
           lo == MinElement(f, length)
       IN  /\ FGt(hi, lo) =>
                \A i \in 1..length :
                   /\ InUnit(output[i])
                   /\ f[i] = lo => output[i] = Zero
                   /\ f[i] = hi => output[i] = One
                   /\ \A j \in 1..length :
                         FLe(f[i], f[j]) => FLe(output[i], output[j])
           /\ FEq(hi, lo) => output = f
           /\ pass >= 1 => \A i \in 1..length : InUnit(output[i])

\* C8: with good buffers and length > 0, process returns 0 exactly when the
\* band [0.8, 3.0] Hz is rejected for the sample rate (3.0 >= sampleRate/2,
\* or the rate is not positive), and 1 otherwise; detrending never makes it
\* fail; the filter runs after detrending, on a copy of the detrended output.
C8_ProcessFailsIffBandRejected ==
    (fn = "process" /\ Returned /\ ValidBuffers)
    => /\ ret_int \in {0, 1}
       /\ ret_int = 1 <=> sample_rate.v > 6 * Scale
       /\ bp.called /\ bp.input = detrended
       /\ bp.low = Lit(8, 10) /\ bp.high = Lit(30, 10)
       /\ ret_int = 0 => (trace = <<"copy", "detrend", "bandpass">>
                          /\ output = detrended)
       /\ ret_int = 1 =>
            trace = <<"copy", "detrend", "bandpass", "filter", "normalize">>

\* process has failed on a band the sample rate does not allow
C8_Witness ==
    /\ fn = "process" /\ Returned /\ ValidBuffers
    /\ ret_int = 0 /\ bp.called /\ sample_rate = IntToF(6)
    /\ length > 1

\* C9: when minBin <= maxBin, find_peak_frequency selects the lowest bin of
\* [minBin, maxBin] whose power is the maximum over that range.
C9_FirstMaximum ==
    (fn = "peak" /\ peak.called /\ peak.min_bin <= peak.max_bin)
    => /\ peak.peak_bin \in peak.min_bin..peak.max_bin
       /\ \A i \in peak.min_bin..peak.max_bin :
             /\ At(psd, i).v <= At(psd, peak.peak_bin).v
             /\ i < peak.peak_bin => At(psd, i).v < At(psd, peak.peak_bin).v

\* the maximum is held by two bins of the range, after a smaller first bin
C9_Witness ==
    /\ fn = "peak" /\ peak.called
    /\ peak.min_bin = 1 /\ peak.max_bin = 3 /\ peak.peak_bin = 2
    /\ At(psd, 1).v < At(psd, 2).v /\ At(psd, 3) = At(psd, 2)

\* C10: in the two rate estimators, for any length >= 1, every index at
\* which find_peak_frequency reads psd is within 0 .. len(psd)-1.
C10_PsdReadsInBounds ==
    (fn \in {"heart", "resp"} /\ peak.called)
    => \A i \in peak.reads : 0 <= i /\ i < peak.size

=============================================================================
